---------------------------- MODULE Spec2Model ----------------------------
(***************************************************************************)
(* go-wallpaper-yostar: a family of command-line crawlers, one per         *)
(* publisher.  Each program fetches a JSON gallery listing, filters out    *)
(* the entries already recorded in SQLite, downloads the rest with a       *)
(* fixed pool of workers fed by one producer through a bounded channel,    *)
(* and records each successful download.                                   *)
(*                                                                         *)
(* One behaviour of Spec is a sequence of runs of ONE program (prog)       *)
(* against an unchanged listing; the table of rows and the files on disk   *)
(* persist from one run to the next.                                       *)
(*                                                                         *)
(* Go strings are sequences of one-character strings.                      *)
(***************************************************************************)
EXTENDS Naturals, Integers, Sequences, FiniteSets, TLC

(***************************************************************************)
(* Bounds of the model.                                                    *)
(***************************************************************************)
\* number of workers of the pool (defaultWorkerCount is 5 in the source)
W == 2
\* capacity of the queue channel (defaultQueueSize is 100 in the source)
Q == 1
\* longest listing returned by the endpoint
MaxLen == 2
\* identifiers of the listing are 1..MaxId
MaxId == 2
\* number of consecutive runs of the program
MaxRuns == 2
\* a further run is followed over listings of at most this many rows
MaxRerunLen == 1

Workers_more == 1..(W + 1)

Workers == 1..W

(***************************************************************************)
(* The programs of the repository.                                         *)
(***************************************************************************)
\* "aethergazer" is cmd/aethergazer, "aethergazer_v1" the earlier program
\* that fetches, queries and downloads with functions of its own, and
\* "aethergazer_v0" the first one; "azurlane_v0" is the first Azur Lane
\* program, which keeps its rows in a table of its own
Programs ==
    {"aethergazer", "aethergazer_v1", "aethergazer_v0", "azurlane", "azurlane_v0",
     "mahjongsoul", "arknight"}

\* the two programs built around prepareImagesForDownload and downloadWorker
IsAetherGazer(p) == p \in {"aethergazer", "aethergazer_v1"}

\* programs whose worker prepares an INSERT statement before its loop
HasPrepare(p) == p \in {"azurlane", "azurlane_v0", "mahjongsoul", "arknight"}

\* programs whose worker inserts a row after a successful download
HasRecorder(p) ==
    p \in {"azurlane", "azurlane_v0", "mahjongsoul", "arknight", "aethergazer_v0"}

\* programs that take the storage handle from the package (GetSqliteDb)
\* instead of opening one themselves
UsesGetSqliteDb(p) == p \in {"azurlane", "azurlane_v0", "arknight"}

\* programs whose main defers db.Close()
DefersClose(p) == p # "arknight"

(***************************************************************************)
(* The two versions of the package's storage file: the one whose init()    *)
(* opens the database into the package's handle before main runs, and the  *)
(* one whose InitDB() opens it into a variable of its own and returns      *)
(* that.  GetSqliteDb returns the package's handle.                        *)
(***************************************************************************)
Packages == {"init", "InitDB"}

GetSqliteDb(v) == IF v = "init" THEN "open" ELSE "nil"

\* the handle main holds after its database step
HandleOf(p, v) == IF UsesGetSqliteDb(p) THEN GetSqliteDb(v) ELSE "open"

\* the database is opened, and the table created, at this step or at the
\* program's load: it can fail there
OpensAtStart(p, v) == UsesGetSqliteDb(p) => v = "init"

(***************************************************************************)
(* fmt.Sprintf("%d", n) for n >= 0: the decimal digits of n.               *)
(***************************************************************************)
DigitChar(d) ==
    CASE d = 0 -> "0" [] d = 1 -> "1" [] d = 2 -> "2" [] d = 3 -> "3"
      [] d = 4 -> "4" [] d = 5 -> "5" [] d = 6 -> "6" [] d = 7 -> "7"
      [] d = 8 -> "8" [] d = 9 -> "9"

RECURSIVE Sprintf_d(_)
Sprintf_d(n) ==
    IF n < 0 THEN <<"-">> \o Sprintf_d(0 - n)
    ELSE IF n < 10 THEN <<DigitChar(n)>>
    ELSE Sprintf_d(n \div 10) \o <<DigitChar(n % 10)>>

(***************************************************************************)
(* strconv.ParseInt(s, 10, 64), which rows.Scan applies to a text value    *)
(* whose destination is an int: an optional sign and at least one decimal  *)
(* digit, anything else is a syntax error.                                 *)
(***************************************************************************)
DigitChars == {"0", "1", "2", "3", "4", "5", "6", "7", "8", "9"}

DigitVal(c) == CHOOSE d \in 0..9 : DigitChar(d) = c

RECURSIVE DigitsVal(_)
DigitsVal(s) ==
    IF s = << >> THEN 0
    ELSE 10 * DigitsVal(SubSeq(s, 1, Len(s) - 1)) + DigitVal(s[Len(s)])

ParseInt(s) ==
    LET signed == s # << >> /\ s[1] \in {"+", "-"}
        ds == IF signed THEN Tail(s) ELSE s
    IN  IF ds = << >> \/ \E k \in DOMAIN ds : ds[k] \notin DigitChars
          THEN [err |-> TRUE, val |-> 0]
          ELSE [err |-> FALSE,
                val |-> IF signed /\ s[1] = "-" THEN 0 - DigitsVal(ds)
                        ELSE DigitsVal(ds)]

(***************************************************************************)
(* strings.ReplaceAll(s, old, new) for a one-character `old`, and the      *)
(* three replacements that clean a file name.                              *)
(***************************************************************************)
ReplaceAll(s, old, new) ==
    [k \in DOMAIN s |-> IF s[k] = old THEN new ELSE s[k]]

CleanFileName_slash(s) ==
    ReplaceAll(ReplaceAll(ReplaceAll(s, " ", "_"), "/", "-"), "\\", "/")

CleanFileName(s) ==
    ReplaceAll(ReplaceAll(ReplaceAll(s, " ", "_"), "/", "-"), "\\", "-")

\* the `/`-only replacement of the first Azur Lane filter
CleanSlashOnly(s) == ReplaceAll(s, "/", "-")

\* strings.Contains
Contains(s, substr) ==
    \E k \in 0..(Len(s) - Len(substr)) : SubSeq(s, k + 1, k + Len(substr)) = substr

\* filepath.Ext: the suffix from the last dot of the last path element
RECURSIVE ExtFrom(_, _)
ExtFrom(s, k) ==
    IF k = 0 \/ s[k] = "/" THEN << >>
    ELSE IF s[k] = "." THEN SubSeq(s, k, Len(s))
    ELSE ExtFrom(s, k - 1)

Ext(s) == ExtFrom(s, Len(s))

\* path.Base: the last element of a slash-separated path
RECURSIVE StripTrailingSlashes(_)
StripTrailingSlashes(s) ==
    IF Len(s) > 0 /\ s[Len(s)] = "/"
      THEN StripTrailingSlashes(SubSeq(s, 1, Len(s) - 1))
      ELSE s

RECURSIVE AfterLastSlash(_, _)
AfterLastSlash(s, k) ==
    IF k = 0 THEN s
    ELSE IF s[k] = "/" THEN SubSeq(s, k + 1, Len(s))
    ELSE AfterLastSlash(s, k - 1)

Base(s) ==
    IF s = << >> THEN <<".">>
    ELSE LET t == StripTrailingSlashes(s)
             b == AfterLastSlash(t, Len(t))
         IN  IF b = << >> THEN <<"/">> ELSE b

(***************************************************************************)
(* The Content-Type header of an answer, and the extension DownloadFile    *)
(* infers from it.  The empty string is a missing header.                  *)
(***************************************************************************)
ContentTypes ==
    { << >>,
      <<"i","m","a","g","e","/","j","p","e","g">>,
      <<"i","m","a","g","e","/","j","p","g">>,
      <<"i","m","a","g","e","/","p","n","g">>,
      <<"i","m","a","g","e","/","g","i","f">>,
      <<"i","m","a","g","e","/","w","e","b","p">>,
      <<"t","e","x","t","/","h","t","m","l">> }

ContentTypeExt(contentType) ==
    IF Contains(contentType, <<"j","p","e","g">>)
         \/ Contains(contentType, <<"j","p","g">>) THEN <<".","j","p","g">>
    ELSE IF Contains(contentType, <<"p","n","g">>) THEN <<".","p","n","g">>
    ELSE IF Contains(contentType, <<"g","i","f">>) THEN <<".","g","i","f">>
    ELSE IF Contains(contentType, <<"w","e","b","p">>) THEN <<".","w","e","b","p">>
    ELSE << >>

(***************************************************************************)
(* The listing served by the endpoint: the rows of each program's          *)
(* envelope, with the identifier, the names and the image URLs of a        *)
(* record.  A URL is a string; the empty string is <<>>.                   *)
(***************************************************************************)
UrlOf(kind, n) == <<kind>> \o Sprintf_d(n)

\* the `_id` strings of the Arknights endpoint
FankitId(n) == <<"f">> \o Sprintf_d(n)

\* the titles and the artists the endpoint serves
Titles == { <<"a", " ", "b">> }
Artists == { <<"x">> }

ListingRows(p) ==
    CASE IsAetherGazer(p) ->
           { [ID |-> n, Title |-> t, ContentImg |-> c, MobileContentImg1 |-> m] :
               n \in 1..MaxId, t \in Titles,
               c \in {<<>>, <<"c">>}, m \in {<<>>, <<"m">>} }
      [] p = "aethergazer_v0" ->
           { [GalleryID |-> n, Title |-> t, Creator |-> a,
              ContentImg |-> UrlOf("c", n),
              MobileContentImg1 |-> UrlOf("m", n),
              MobileContentImg2 |-> UrlOf("n", n)] :
               n \in 1..MaxId, t \in Titles, a \in Artists }
      [] p \in {"azurlane", "azurlane_v0"} ->
           { [ID |-> n, Title |-> t, Artist |-> a, Works |-> UrlOf("w", n)] :
               n \in 1..MaxId, t \in Titles, a \in Artists }
      [] p = "mahjongsoul" ->
           { [ID |-> n, Title |-> t, PC |-> UrlOf("p", n),
              Mobile1 |-> UrlOf("m", n), Mobile2 |-> UrlOf("n", n)] :
               n \in 1..MaxId, t \in Titles }
      [] p = "arknight" ->
           { [ID |-> FankitId(n), Title |-> t, ArtistName |-> a,
              L |-> UrlOf("l", n), M |-> UrlOf("m", n), S |-> UrlOf("s", n)] :
               n \in 1..MaxId, t \in Titles, a \in Artists }

\* the rows of the programs whose record carries several image URLs (the
\* desktop image and the mobile ones, or the sizes l, m and s), each of which
\* the endpoint may leave empty
VariantRows(p) ==
    CASE IsAetherGazer(p) ->
           { [ID |-> n, Title |-> t, ContentImg |-> c, MobileContentImg1 |-> m] :
               n \in {1, 42}, t \in Titles,
               c \in {<<>>, <<"c">>}, m \in {<<>>, <<"m">>} }
      [] p = "aethergazer_v0" ->
           { [GalleryID |-> n, Title |-> t, Creator |-> a, ContentImg |-> c,
              MobileContentImg1 |-> m, MobileContentImg2 |-> m2] :
               n \in {1, 42}, t \in Titles, a \in Artists,
               c \in {<<>>, <<"c">>}, m \in {<<>>, <<"m">>},
               m2 \in {<<>>, <<"n">>} }
      [] p = "mahjongsoul" ->
           { [ID |-> n, Title |-> t, PC |-> c, Mobile1 |-> m, Mobile2 |-> m2] :
               n \in {1, 42}, t \in Titles,
               c \in {<<>>, <<"p">>}, m \in {<<>>, <<"m">>},
               m2 \in {<<>>, <<"n">>} }
      [] p = "arknight" ->
           { [ID |-> FankitId(n), Title |-> t, ArtistName |-> a,
              L |-> l, M |-> m, S |-> s2] :
               n \in {1, 42}, t \in Titles, a \in Artists,
               l \in {<<>>, <<"l">>}, m \in {<<>>, <<"m">>},
               s2 \in {<<>>, <<"s">>} }
      [] OTHER -> ListingRows(p)

\* the image URLs of a record, one per variant
VariantUrls(p, row) ==
    CASE IsAetherGazer(p) -> <<row.ContentImg, row.MobileContentImg1>>
      [] p = "mahjongsoul" -> <<row.PC, row.Mobile1, row.Mobile2>>
      [] p = "aethergazer_v0" ->
           <<row.ContentImg, row.MobileContentImg1, row.MobileContentImg2>>
      [] p \in {"azurlane", "azurlane_v0"} -> <<row.Works>>
      [] p = "arknight" -> <<row.L, row.M, row.S>>

SeqsUpTo(S, n) == UNION { [1..k -> S] : k \in 0..n }

Listings(p) == SeqsUpTo(ListingRows(p), MaxLen)

(***************************************************************************)
(* slices.Contains / IntInArray: membership in a slice.                    *)
(***************************************************************************)
IntInArray(arr, val) == \E k \in DOMAIN arr : arr[k] = val

(***************************************************************************)
(* The dedup filters.  Each returns the list of pending downloads; `src`   *)
(* is the position of the listing row an entry was made from (the entry    *)
(* is a copy of that row's fields; the position names the copy).           *)
(***************************************************************************)
\* the condition under which a listing row is skipped (`continue`)
SkipRow_never(existingIDs, id) == FALSE

SkipRow(existingIDs, id) == IntInArray(existingIDs, id)

\* the identifier a program compares with the existing ones
RowId(p, row) ==
    CASE IsAetherGazer(p)     -> row.ID
      [] p = "aethergazer_v0" -> row.GalleryID
      [] p = "azurlane"       -> Sprintf_d(row.ID)
      [] p = "azurlane_v0"    -> row.ID
      [] p = "mahjongsoul"    -> Sprintf_d(row.ID)
      [] p = "arknight"       -> row.ID

\* the entries one listing row yields
EntriesOf(p, row, k) ==
    CASE IsAetherGazer(p) ->
           (IF row.ContentImg # <<>>
              THEN << [src |-> k, id |-> row.ID, kind |-> "content",
                       url |-> row.ContentImg,
                       FileName |-> CleanFileName(row.Title) \o <<"_">>
                                    \o Sprintf_d(row.ID) \o <<"_", "content">>] >>
              ELSE << >>)
           \o
           (IF row.MobileContentImg1 # <<>>
              THEN << [src |-> k, id |-> row.ID, kind |-> "mobile",
                       url |-> row.MobileContentImg1,
                       FileName |-> CleanFileName(row.Title) \o <<"_">>
                                    \o Sprintf_d(row.ID) \o <<"_", "mobile">>] >>
              ELSE << >>)
      [] p = "aethergazer_v0" ->
           << [src |-> k, id |-> row.GalleryID, kind |-> "wallpaper",
               url |-> row.ContentImg,
               FileName |-> row.Creator \o <<"_">> \o row.Title] >>
      [] p = "azurlane" ->
           << [src |-> k, id |-> Sprintf_d(row.ID), kind |-> "wallpaper",
               url |-> <<"https://webusstatic.yo-star.com/">> \o row.Works,
               FileName |-> row.Title \o <<"(">> \o row.Artist \o <<")">>] >>
      [] p = "azurlane_v0" ->
           << [src |-> k, id |-> row.ID, kind |-> "wallpaper",
               url |-> <<"https://webusstatic.yo-star.com/">> \o row.Works,
               FileName |-> CleanSlashOnly(row.Title \o <<" ", "(">> \o row.Artist
                                           \o <<")", ".", "j", "p", "e", "g">>)] >>
      [] p = "mahjongsoul" ->
           << [src |-> k, id |-> Sprintf_d(row.ID), kind |-> "wallpaper",
               url |-> row.PC,
               FileName |-> row.Title] >>
      [] p = "arknight" ->
           << [src |-> k, id |-> row.ID, kind |-> "wallpaper",
               url |-> <<"https://webusstatic.yo-star.com/">> \o row.L,
               FileName |-> row.Title \o <<" ", "(">> \o row.ArtistName
                            \o <<")">>] >>

RECURSIVE FilterFrom(_, _, _, _)
FilterFrom(p, wallpapers, existingIDs, k) ==
    IF k > Len(wallpapers) THEN << >>
    ELSE (IF SkipRow(existingIDs, RowId(p, wallpapers[k]))
            THEN << >>
            ELSE EntriesOf(p, wallpapers[k], k))
         \o FilterFrom(p, wallpapers, existingIDs, k + 1)

filterNewWallpapers_tail(p, wallpapers, existingIDs) ==
    FilterFrom(p, wallpapers, existingIDs, 2)

filterNewWallpapers(p, wallpapers, existingIDs) ==
    FilterFrom(p, wallpapers, existingIDs, 1)

(***************************************************************************)
(* Storage.  A row of the table a program writes; `tbl` is the table.      *)
(***************************************************************************)
Table(p) ==
    IF p \in {"aethergazer", "aethergazer_v1", "aethergazer_v0"} THEN "aether_gazer"
    ELSE IF p = "azurlane_v0" THEN "azur_lane"
    ELSE "yostar_gallery"

\* the tables a CREATE TABLE IF NOT EXISTS of the package or of a program
\* makes; no statement creates azur_lane
CreatedTables == {"yostar_gallery", "aether_gazer"}

\* the row crawURL's INSERT appends for an entry
InsertRow(p, al) ==
    CASE p = "azurlane" ->
           [tbl |-> "yostar_gallery", id_gallery |-> al.id, game |-> "azurlane",
            type |-> "wallpaper", file_name |-> al.FileName, url |-> al.url]
      [] p = "mahjongsoul" ->
           [tbl |-> "yostar_gallery", id_gallery |-> al.id, game |-> "mahjong_soul",
            type |-> "wallpaper", file_name |-> al.FileName, url |-> al.url]
      [] p = "arknight" ->
           [tbl |-> "yostar_gallery", id_gallery |-> al.id, game |-> "arknight",
            type |-> "wallpaper", file_name |-> al.FileName, url |-> al.url]
      [] p = "aethergazer_v0" ->
           [tbl |-> "aether_gazer", id_gallery |-> al.id, game |-> "",
            type |-> "wallpaper", file_name |-> <<>>, url |-> al.url]
      \* INSERT INTO azur_lane VALUES (id_wallpaper, file_name, url)
      [] p = "azurlane_v0" ->
           [tbl |-> "azur_lane", id_gallery |-> al.id, game |-> "",
            type |-> "", file_name |-> al.FileName, url |-> al.url]

\* Exec of `INSERT INTO ... VALUES (...)`: the table with the row added
Exec_replace(rs, r) == <<r>>

Exec(rs, r) == Append(rs, r)

\* the WHERE clause of the program's startup query
QueryWhere(p, r) ==
    CASE IsAetherGazer(p)     -> r.tbl = "aether_gazer"
      [] p = "aethergazer_v0" -> r.tbl = "aether_gazer"
      [] p = "azurlane"       -> r.tbl = "yostar_gallery" /\ r.game = "azurlane"
      [] p = "azurlane_v0"    -> r.tbl = "azur_lane"
      [] p = "mahjongsoul"    -> r.tbl = "yostar_gallery" /\ r.type = "mahjong_soul"
      [] p = "arknight"       -> r.tbl = "yostar_gallery" /\ r.game = "arknight"

\* the number of columns the program's query selects
QueryColumns(p) == IF p = "mahjongsoul" THEN 2 ELSE 1

RECURSIVE SelectWhere(_, _)
SelectWhere(p, rs) ==
    IF rs = << >> THEN << >>
    ELSE (IF QueryWhere(p, Head(rs)) THEN <<Head(rs)>> ELSE << >>)
         \o SelectWhere(p, Tail(rs))

\* the tables whose identifier column holds text (id_gallery VARCHAR); the
\* identifier column of aether_gazer holds integers
TextIds(p) == Table(p) = "yostar_gallery"

\* ids.Scan(&id) with `var id int`: an integer as it is, a text through
\* ParseInt
Scan(p, v) ==
    IF TextIds(p) THEN ParseInt(v) ELSE [err |-> FALSE, val |-> v]

(***************************************************************************)
(* GetExistingWallpaperIDs: the identifiers of the selected rows as ints,  *)
(* one Scan destination per row.  rows.Scan fails when the query selects   *)
(* another number of columns than the one destination given, and when the  *)
(* value of the column is not the text of an integer; the first failure    *)
(* ends the function with the error.                                       *)
(***************************************************************************)
GetExistingWallpaperIDs(p, rs) ==
    LET sel == SelectWhere(p, rs)
    IN  IF sel # << >> /\ QueryColumns(p) # 1
          THEN [err |-> TRUE, ids |-> << >>]
        ELSE IF \E k \in DOMAIN sel : Scan(p, sel[k].id_gallery).err
          THEN [err |-> TRUE, ids |-> << >>]
          ELSE [err |-> FALSE,
                ids |-> [k \in DOMAIN sel |-> Scan(p, sel[k].id_gallery).val]]

\* the programs whose filter takes the existing identifiers as []string
StringIds(p) == p \in {"azurlane", "mahjongsoul", "arknight"}

(***************************************************************************)
(* The programs with a []string filter call a GetExistingWallpaperIDs that *)
(* returns []string; that version of the function is not among the         *)
(* sources.  It is taken here to differ from the one above in the type of  *)
(* its Scan destination only: each identifier is the text of the column as *)
(* it is stored.                                                           *)
(***************************************************************************)
GetExistingWallpaperIDs_strings(p, rs) ==
    LET sel == SelectWhere(p, rs)
    IN  IF sel # << >> /\ QueryColumns(p) # 1
          THEN [err |-> TRUE, ids |-> << >>]
          ELSE [err |-> FALSE,
                ids |-> [k \in DOMAIN sel |-> sel[k].id_gallery]]

\* the identifier query as the program runs it
ExistingIDs(p, rs) ==
    IF StringIds(p) THEN GetExistingWallpaperIDs_strings(p, rs)
    ELSE GetExistingWallpaperIDs(p, rs)

(***************************************************************************)
(* The main flow.  Steps(p) is the order of the steps of main up to the    *)
(* wait; package initialisation (sqlite.go init) runs before main.         *)
(***************************************************************************)
Steps_late(p) ==
    <<"folder", "db", "fetch", "decode", "workers", "query", "filter",
      "producer", "wait">>

Steps(p) ==
    CASE IsAetherGazer(p) ->
           <<"folder", "db", "fetch", "decode", "query", "filter",
             "workers", "producer", "wait">>
      [] p = "mahjongsoul" ->
           <<"folder", "db", "fetch", "decode", "query", "filter",
             "workers", "producer", "wait">>
      [] p = "azurlane" ->
           <<"db", "folder", "fetch", "decode", "query", "filter",
             "workers", "producer", "wait">>
      [] p = "arknight" ->
           <<"db", "folder", "fetch", "decode", "query", "filter",
             "workers", "producer", "wait">>
      [] p = "aethergazer_v0" ->
           <<"folder", "fetch", "decode", "db", "query", "filter",
             "producer", "workers", "wait">>
      [] p = "azurlane_v0" ->
           <<"db", "folder", "fetch", "decode", "query", "filter",
             "workers", "producer", "wait">>

After(p, step) ==
    LET k == CHOOSE j \in DOMAIN Steps(p) : Steps(p)[j] = step
    IN  Steps(p)[k + 1]

\* `if err != nil { log.Fatalf(...) }`: the process exits
FatalIf_ignored(err, next) == next

FatalIf(err, next) == IF err THEN "aborted" ELSE next

Terminal == {"done", "aborted", "crashed"}

(***************************************************************************)
(* The answers of the listing endpoint: a transport error, or a status     *)
(* and a body; a body is the JSON envelope of the listing, a JSON          *)
(* envelope without rows, or not JSON at all.                              *)
(***************************************************************************)
Responses ==
    { [err |-> TRUE, status |-> 0, body |-> "none"] }
    \cup { [err |-> FALSE, status |-> 200, body |-> "rows"] }
    \cup { [err |-> FALSE, status |-> st, body |-> b] :
             st \in {200, 500}, b \in {"empty", "garbage"} }
    \cup { [err |-> FALSE, status |-> 500, body |-> "rows"] }

NoResponse == [err |-> FALSE, status |-> 0, body |-> "none"]

\* FetchApi: the error it returns for an answer
FetchApi_err(r) == r.err

\* json.Unmarshal of the body: the error, and the rows decoded
Unmarshal_err(r) == r.body = "garbage"

(***************************************************************************)
(* DownloadFile / downloadImage: the outcomes of one call.  The call sends *)
(* the request (client.Do), then creates the file (os.Create, which        *)
(* truncates an existing one), then copies the body (io.Copy); the other   *)
(* workers run between these steps.                                        *)
(***************************************************************************)
Outcomes == {"ok", "neterr", "non200", "createfail", "copyfail"}

\* what client.Do and the status check give: an error, a status other than
\* 200, or an answer with status 200
Answers == {"neterr", "non200", "answered"}

\* the download function a program is built with: the current DownloadFile,
\* the earlier one that stands next to the first Aether Gazer program, or
\* the downloadImage of the second Aether Gazer program
Utils(p) ==
    IF p = "aethergazer_v0" THEN "utils_v0"
    ELSE IF p = "aethergazer_v1" THEN "downloadImage"
    ELSE "utils"

\* `if fileName == "" { fileName = path.Base(url) }`
DownloadFile_fileName(url, fileName) ==
    IF fileName = << >> THEN Base(url) ELSE fileName

\* the extension the function appends to the file name
DownloadFile_ext(u, url, fileName, contentType) ==
    LET fn == DownloadFile_fileName(url, fileName)
    IN  IF u = "utils"
          THEN (IF Ext(fn) = << >> THEN ContentTypeExt(contentType) ELSE Ext(fn))
        ELSE IF u = "utils_v0"
          THEN (IF Ext(url) = << >> /\ ~Contains(fn, <<".">>)
                  THEN ContentTypeExt(contentType)
                  ELSE Ext(url))
          ELSE (IF Ext(url) = << >> THEN ContentTypeExt(contentType)
                ELSE Ext(url))

\* the second argument of filepath.Join: the cleaned file name plus the
\* extension; downloadImage takes the file name as it is handed over
DownloadFile_name(u, url, fileName, contentType) ==
    (IF u = "downloadImage" THEN fileName
     ELSE CleanFileName(DownloadFile_fileName(url, fileName)))
      \o DownloadFile_ext(u, url, fileName, contentType)

(***************************************************************************)
(* Paths.  A path is the sequence of its elements from the root; pathTo,   *)
(* the folder CreateFolder made for a kind of image, is <<"h", kind>>,     *)
(* "h" standing for the home directory.                                    *)
(***************************************************************************)
\* the elements of a slash-separated string ("a//b" has an empty one)
RECURSIVE Elements(_)
Elements(s) ==
    IF s = << >> THEN << << >> >>
    ELSE LET rest == Elements(Tail(s))
         IN  IF Head(s) = "/" THEN << << >> >> \o rest
             ELSE << <<Head(s)>> \o Head(rest) >> \o Tail(rest)

\* filepath.Clean of a rooted path whose first elements are `dir`: empty
\* elements and "." go, ".." takes the element before it, or nothing at the
\* root
RECURSIVE CleanFrom(_, _)
CleanFrom(dir, elems) ==
    IF elems = << >> THEN dir
    ELSE LET e == Head(elems)
         IN  CleanFrom(IF e \in { << >>, <<".">> } THEN dir
                       ELSE IF e = <<".", ".">>
                         THEN SubSeq(dir, 1, Len(dir) - 1)
                       ELSE Append(dir, e),
                       Tail(elems))

\* filepath.Join(pathTo, name)
Join(dir, name) == CleanFrom(dir, Elements(name))

\* pathTo for an entry
PathTo(al) == << <<"h">>, <<al.kind>> >>

\* the folders the program has made by the time a worker runs, with the
\* directories above them
Folders(p) ==
    IF IsAetherGazer(p) THEN {"content", "mobile"} ELSE {"wallpaper"}

Dirs(p) == { << >>, << <<"h">> >> } \cup { << <<"h">>, <<k>> >> : k \in Folders(p) }

\* fullPath
DestPath(p, al, contentType) ==
    Join(PathTo(al),
         DownloadFile_name(Utils(p), al.url, al.FileName, contentType))

\* os.Create(fullPath) can succeed: the path is not a directory and the
\* directory it lies in exists
Creatable(p, path) ==
    /\ path \notin Dirs(p)
    /\ SubSeq(path, 1, Len(path) - 1) \in Dirs(p)

\* the Content-Type headers the image servers of the pool's runs answer with
PoolContentTypes ==
    { <<"i","m","a","g","e","/","j","p","e","g">> }

(***************************************************************************)
(* The files on disk: path -> what the file holds.  "partial" is a file    *)
(* that was created or truncated and does not hold a body in full,         *)
(* "complete" one that holds the body of one call in full, and "mixed" one *)
(* that holds pieces written through two open handles.  Each call writes   *)
(* through its own handle at its own offset, so a call whose file another  *)
(* call truncated goes on writing into it.                                 *)
(***************************************************************************)
FileStates == {"partial", "complete", "mixed"}

\* what os.Create leaves at the path: an empty file
os_Create(fs, path) == (path :> "partial") @@ fs

\* what io.Copy and the return of the call can leave at the path.  `shared`
\* says that another call had the file open while this one did.  Alone, the
\* call leaves its body in full, or what it wrote of it when the copy
\* failed.  With another handle on the file, the body is there in full when
\* the writes of this call came last, and in pieces otherwise.
io_Copy(fs, path, shared, err) ==
    IF ~ shared
      THEN { IF err THEN fs ELSE [fs EXCEPT ![path] = "complete"] }
      ELSE { [fs EXCEPT ![path] = st] :
               st \in IF err THEN {fs[path], "mixed"} ELSE {"complete", "mixed"} }

(***************************************************************************)
(* The worker (crawURL / downloadWorker): where it goes after each step.   *)
(* "fatal" is log.Fatal: the whole process exits.                          *)
(***************************************************************************)
\* after db.Prepare
crawURL_afterPrepare(p, err) ==
    IF err THEN "returned_early" ELSE "loop"

\* after DownloadFile
crawURL_afterDownload_record(p, err) ==
    IF HasRecorder(p) THEN "insert" ELSE "loop"

crawURL_afterDownload_retry(p, err) ==
    IF err THEN "download"
    ELSE (IF HasRecorder(p) THEN "insert" ELSE "loop")

crawURL_afterDownload(p, err) ==
    IF err
      THEN (IF p = "aethergazer_v0" THEN "fatal" ELSE "loop")
      ELSE (IF HasRecorder(p) THEN "insert" ELSE "loop")

\* after the INSERT
crawURL_afterInsert(p, err) ==
    IF err /\ p = "aethergazer_v0" THEN "fatal" ELSE "loop"

(***************************************************************************)
(* State.                                                                  *)
(***************************************************************************)
VARIABLES
    prog,        \* the program that runs
    listing,     \* the rows the endpoint serves (unchanged between runs)
    run,         \* the number of the current run
    mainpc,      \* the step main is at, or "done", "aborted", "crashed"
    resp,        \* the answer FetchApi received
    wallpapers,  \* the rows decoded from the answer
    existingIDs, \* the identifiers read from storage at startup
    toDownload,  \* the filtered list the producer feeds from
    prodpc,      \* the producer goroutine: "off", "send", "done"
    sent,        \* how many entries of toDownload the producer has sent
    queue,       \* the channel's buffer: positions in toDownload
    closed,      \* the channel has been closed
    wpc,         \* each worker: "off", "prepare", "loop", "download",
                 \*   "create", "copy", "insert", "returned", "returned_early"
    witem,       \* the entry a worker holds (a position, 0 for none)
    rows,        \* the table's rows, in insertion order
    files,       \* path -> what the file holds
    hist,        \* per entry of toDownload, what happened to it in this run
    rows0,       \* Len(rows) when the run started
    fatalAt,     \* the step of main whose error was fatal, or "none"
    db,          \* the storage handle main holds: "nil", "open", "closed"
    prev         \* what the previous run did: whether it downloaded and
                 \*   recorded the whole listing, and the listing positions
                 \*   whose insert failed

vars == <<prog, listing, run, mainpc, resp, wallpapers, existingIDs, toDownload,
          prodpc, sent, queue, closed, wpc, witem, rows, files, hist, rows0,
          fatalAt, prev, db>>

inputs == <<prog, listing, prev>>
mainVars == <<resp, wallpapers, existingIDs, toDownload>>
poolVars == <<prodpc, sent, queue, closed, wpc, witem>>

NoHist == [taken |-> 0, gets |-> 0, dl |-> "none", ins |-> 0, insfail |-> 0,
           ct |-> << >>, name |-> << >>, shared |-> FALSE]

NoPrev == [clean |-> FALSE, insfailed |-> {}]

Alive == mainpc \notin Terminal

\* a step of main that ends in `if err != nil { log.Fatalf(...) }`
MainStep(step, err) ==
    /\ mainpc' = FatalIf(err, After(prog, step))
    /\ fatalAt' = IF err THEN step ELSE fatalAt

\* the path DownloadFile created the file of an entry at
WrittenPath(i) == Join(PathTo(toDownload[i]), hist[i].name)

\* an entry ended as a success: downloaded, and recorded where the program
\* records
Succeeded(h) == h.dl = "ok" /\ (HasRecorder(prog) => h.ins = 1)

\* an entry ended as a logged failure
Failed(h) == h.dl \in Outcomes \ {"ok"} \/ h.insfail > 0

RunStart ==
    /\ resp = NoResponse
    /\ wallpapers = << >>
    /\ existingIDs = << >>
    /\ toDownload = << >>
    /\ prodpc = "off"
    /\ sent = 0
    /\ queue = << >>
    /\ closed = FALSE
    /\ wpc = [w \in Workers |-> "off"]
    /\ witem = [w \in Workers |-> 0]
    /\ hist = << >>
    /\ fatalAt = "none"
    /\ db = "nil"

Init ==
    /\ prog \in Programs
    /\ listing \in Listings(prog)
    /\ run = 1
    /\ mainpc = Steps(prog)[1]
    /\ rows = << >>
    /\ files = << >>
    /\ rows0 = 0
    /\ prev = NoPrev
    /\ RunStart

(***************************************************************************)
(* The steps of main.                                                      *)
(***************************************************************************)
\* craw.CreateFolder (os.MkdirAll) for the destination folders
CreateFolder ==
    /\ mainpc = "folder"
    /\ \E err \in BOOLEAN :
         MainStep("folder", err)
    /\ UNCHANGED <<inputs, db, run, mainVars, poolVars, rows, files, hist, rows0>>

\* sql.Open and CREATE TABLE IF NOT EXISTS (init, InitDB, initDB, createTable)
InitDB ==
    /\ mainpc = "db"
    /\ \E err \in BOOLEAN, v \in Packages :
         LET failed == err /\ OpensAtStart(prog, v)
         IN  /\ MainStep("db", failed)
             /\ db' = IF failed THEN "nil" ELSE HandleOf(prog, v)
    /\ UNCHANGED <<inputs, run, mainVars, poolVars, rows, files, hist, rows0>>

\* FetchApi: one GET of the listing endpoint, the body read in full
FetchApi ==
    /\ mainpc = "fetch"
    /\ \E r \in Responses :
         /\ resp' = r
         /\ MainStep("fetch", FetchApi_err(r))
    /\ UNCHANGED <<inputs, db, run, wallpapers, existingIDs, toDownload, poolVars,
                   rows, files, hist, rows0>>

\* json.Unmarshal of the body into the envelope; the rows are its data.rows
Unmarshal ==
    /\ mainpc = "decode"
    /\ MainStep("decode", Unmarshal_err(resp))
    /\ wallpapers' = IF resp.body = "rows" THEN listing ELSE << >>
    /\ UNCHANGED <<inputs, db, run, resp, existingIDs, toDownload, poolVars,
                   rows, files, hist, rows0>>

\* the startup query of the identifiers already recorded; it fails when the
\* table it reads was never created
QueryExisting ==
    /\ mainpc = "query"
    /\ IF db = "nil"
         THEN /\ mainpc' = "crashed"
              /\ UNCHANGED <<existingIDs, fatalAt>>
         ELSE \E qerr \in BOOLEAN :
                LET got == ExistingIDs(prog, rows)
                    failed == \/ qerr
                              \/ Table(prog) \notin CreatedTables
                              \/ got.err
                IN  /\ MainStep("query", failed)
                    /\ existingIDs' = IF failed THEN << >> ELSE got.ids
    /\ UNCHANGED <<inputs, db, run, resp, wallpapers, toDownload, poolVars,
                   rows, files, hist, rows0>>

\* filterNewWallpapers / prepareImagesForDownload
Filter ==
    /\ mainpc = "filter"
    /\ toDownload' = filterNewWallpapers(prog, wallpapers, existingIDs)
    /\ hist' = [k \in DOMAIN toDownload' |-> NoHist]
    /\ mainpc' = After(prog, "filter")
    /\ UNCHANGED <<inputs, db, run, resp, wallpapers, existingIDs, poolVars,
                   rows, files, rows0,
                   fatalAt>>

\* the loop `wg.Add(1); go crawURL(...)`
StartWorkers ==
    /\ mainpc = "workers"
    /\ wpc' = [w \in Workers |-> IF HasPrepare(prog) THEN "prepare" ELSE "loop"]
    /\ mainpc' = After(prog, "workers")
    /\ UNCHANGED <<inputs, db, run, mainVars, prodpc, sent, queue, closed, witem,
                   rows, files, hist, rows0,
                   fatalAt>>

\* `go func() { for ... { queue <- w }; close(queue) }()`
StartProducer ==
    /\ mainpc = "producer"
    /\ prodpc' = "send"
    /\ mainpc' = After(prog, "producer")
    /\ UNCHANGED <<inputs, db, run, mainVars, sent, queue, closed, wpc, witem,
                   rows, files, hist, rows0,
                   fatalAt>>

\* the WaitGroup's counter is zero: every worker has called wg.Done
WaitGroupZero_first(wp) == \E w \in Workers : wp[w] \in {"returned", "returned_early"}

WaitGroupZero(wp) == \A w \in Workers : wp[w] \in {"returned", "returned_early"}

\* wg.Wait() returns once every worker has called wg.Done; main then returns
\* and its deferred db.Close() runs
Wait ==
    /\ mainpc = "wait"
    /\ WaitGroupZero(wpc)
    /\ mainpc' = "done"
    /\ db' = IF DefersClose(prog) THEN "closed" ELSE db
    /\ UNCHANGED <<inputs, run, mainVars, poolVars, rows, files, hist, rows0,
                   fatalAt>>

(***************************************************************************)
(* The producer goroutine.                                                 *)
(***************************************************************************)
\* the producer's `for _, w := range list` has gone through the list
RangeOver_early(s, list) == s >= Len(list) - 1

RangeOver(s, list) == s = Len(list)

\* the buffer of `make(chan T, Q)` is full: a send blocks
BufferFull_never(q) == FALSE

BufferFull(q) == Len(q) >= Q

\* `queue <- wallpaper`: blocks while the buffer is full
Send ==
    /\ Alive
    /\ prodpc = "send"
    /\ ~ RangeOver(sent, toDownload)
    /\ ~ BufferFull(queue)
    /\ queue' = Append(queue, sent + 1)
    /\ sent' = sent + 1
    /\ UNCHANGED <<inputs, db, run, mainpc, mainVars, prodpc, closed, wpc, witem,
                   rows, files, hist, rows0,
                   fatalAt>>

\* close(queue), after the last send
Close ==
    /\ Alive
    /\ prodpc = "send"
    /\ RangeOver(sent, toDownload)
    /\ closed' = TRUE
    /\ prodpc' = "done"
    /\ UNCHANGED <<inputs, db, run, mainpc, mainVars, sent, queue, wpc, witem,
                   rows, files, hist, rows0,
                   fatalAt>>

(***************************************************************************)
(* A worker goroutine (crawURL, downloadWorker).                           *)
(***************************************************************************)
\* db.Prepare of the INSERT statement, before the loop
Prepare(w) ==
    /\ Alive
    /\ wpc[w] = "prepare"
    /\ \E err \in BOOLEAN :
         wpc' = [wpc EXCEPT ![w] = crawURL_afterPrepare(prog, err)]
    /\ UNCHANGED <<inputs, db, run, mainpc, mainVars, prodpc, sent, queue, closed,
                   witem, rows, files, hist, rows0,
                   fatalAt>>

\* `for al := range queue`: receive the next entry
Receive(w) ==
    /\ Alive
    /\ wpc[w] = "loop"
    /\ queue # << >>
    /\ witem' = [witem EXCEPT ![w] = Head(queue)]
    /\ queue' = Tail(queue)
    /\ wpc' = [wpc EXCEPT ![w] = "download"]
    /\ hist' = [hist EXCEPT ![Head(queue)].taken = @ + 1]
    /\ UNCHANGED <<inputs, db, run, mainpc, mainVars, prodpc, sent, closed,
                   rows, files, rows0,
                   fatalAt>>

\* `for al := range queue`: the channel is closed and empty, the loop ends
\* and the deferred wg.Done runs
RangeEnd(w) ==
    /\ Alive
    /\ wpc[w] = "loop"
    /\ queue = << >>
    /\ closed
    /\ wpc' = [wpc EXCEPT ![w] = "returned"]
    /\ UNCHANGED <<inputs, db, run, mainpc, mainVars, prodpc, sent, queue, closed,
                   witem, rows, files, hist, rows0,
                   fatalAt>>

\* the process exits when a worker calls log.Fatal
Goto(w, to) ==
    /\ wpc' = [wpc EXCEPT ![w] = IF to = "fatal" THEN "off" ELSE to]
    /\ witem' = [witem EXCEPT ![w] = IF to \in {"insert", "download", "create",
                                                 "copy"}
                                       THEN @ ELSE 0]
    /\ mainpc' = IF to = "fatal" THEN "crashed" ELSE mainpc

\* the other workers whose call is copying into the file at `path`
Copying(w, path) ==
    { v \in Workers \ {w} : wpc[v] = "copy" /\ WrittenPath(witem[v]) = path }

\* the files once worker w has gone to `to`: log.Fatal ends the process in
\* the middle of the other workers' copies, and what such a copy had written
\* by then into a file it shares is in the file
FilesAfter(fs, w, to) ==
    IF to # "fatal" THEN {fs}
    ELSE LET cut == { q \in DOMAIN fs :
                        \E v \in Copying(w, q) : hist[witem[v]].shared }
         IN  { f \in [DOMAIN fs -> FileStates] :
                 \A q \in DOMAIN fs :
                     f[q] \in IF q \in cut THEN {fs[q], "mixed"} ELSE {fs[q]} }

\* DownloadFile up to its status check: client.Do sends the GET and returns
\* with the answer's status and headers, or with an error; the GET of an
\* empty URL is an error
ClientDo(w, contentTypes) ==
    /\ Alive
    /\ wpc[w] = "download"
    /\ \E a \in Answers, contentType \in contentTypes :
         LET i == witem[w]
             to == IF a = "answered" THEN "create"
                   ELSE crawURL_afterDownload(prog, TRUE)
         IN  /\ toDownload[i].url = << >> => a = "neterr"
             /\ hist' = [hist EXCEPT ![i].gets = @ + 1,
                                     ![i].dl = IF a = "answered" THEN @ ELSE a,
                                     ![i].ct = IF a = "answered" THEN contentType
                                               ELSE @]
             /\ files' \in FilesAfter(files, w, to)
             /\ Goto(w, to)
    /\ UNCHANGED <<inputs, db, run, mainVars, prodpc, sent, queue, closed,
                   rows, rows0,
                   fatalAt>>

\* DownloadFile from the file name to os.Create(fullPath): the file is
\* created, or truncated when it exists
OsCreate(w) ==
    /\ Alive
    /\ wpc[w] = "create"
    /\ \E err \in BOOLEAN :
         LET i == witem[w]
             al == toDownload[i]
             name == DownloadFile_name(Utils(prog), al.url, al.FileName, hist[i].ct)
             path == Join(PathTo(al), name)
             others == { witem[v] : v \in Copying(w, path) }
             to == IF err THEN crawURL_afterDownload(prog, TRUE) ELSE "copy"
         IN  /\ ~ err => Creatable(prog, path)
             /\ files' \in IF err THEN FilesAfter(files, w, to)
                           ELSE {os_Create(files, path)}
             /\ hist' = IF err THEN [hist EXCEPT ![i].dl = "createfail"]
                        ELSE [k \in DOMAIN hist |->
                                IF k = i
                                  THEN [hist[k] EXCEPT !.name = name,
                                                       !.shared = others # {}]
                                ELSE IF k \in others
                                  THEN [hist[k] EXCEPT !.shared = TRUE]
                                ELSE hist[k]]
             /\ Goto(w, to)
    /\ UNCHANGED <<inputs, db, run, mainVars, prodpc, sent, queue, closed,
                   rows, rows0,
                   fatalAt>>

\* io.Copy(file, resp.Body) and the return of DownloadFile
IoCopy(w) ==
    /\ Alive
    /\ wpc[w] = "copy"
    /\ \E err \in BOOLEAN :
         LET i == witem[w]
             to == crawURL_afterDownload(prog, err)
         IN  /\ files' \in UNION { FilesAfter(f, w, to) :
                                     f \in io_Copy(files, WrittenPath(i),
                                                   hist[i].shared, err) }
             /\ hist' = [hist EXCEPT ![i].dl = IF err THEN "copyfail" ELSE "ok"]
             /\ Goto(w, to)
    /\ UNCHANGED <<inputs, db, run, mainVars, prodpc, sent, queue, closed,
                   rows, rows0,
                   fatalAt>>

\* craw.DownloadFile(al.Url, al.FileName, path), one of its steps
DownloadFileFrom(w, contentTypes) ==
    \/ ClientDo(w, contentTypes)
    \/ OsCreate(w)
    \/ IoCopy(w)

DownloadFile(w) == DownloadFileFrom(w, PoolContentTypes)

\* insertStmt.Exec / db.Exec of the INSERT for the entry just downloaded
Insert(w) ==
    /\ Alive
    /\ wpc[w] = "insert"
    /\ \E err \in BOOLEAN :
         LET i == witem[w]
             to == crawURL_afterInsert(prog, err)
         IN  /\ rows' = IF err THEN rows
                        ELSE Exec(rows, InsertRow(prog, toDownload[i]))
             /\ hist' = IF err THEN [hist EXCEPT ![i].insfail = @ + 1]
                        ELSE [hist EXCEPT ![i].ins = @ + 1]
             /\ files' \in FilesAfter(files, w, to)
             /\ Goto(w, to)
    /\ UNCHANGED <<inputs, db, run, mainVars, prodpc, sent, queue, closed,
                   rows0,
                   fatalAt>>

(***************************************************************************)
(* The program is run again, on the same storage and the same folders.     *)
(***************************************************************************)
NextRun ==
    /\ mainpc \in Terminal
    /\ run < MaxRuns
    /\ Len(listing) <= MaxRerunLen
    /\ run' = run + 1
    /\ mainpc' = Steps(prog)[1]
    /\ rows0' = Len(rows)
    /\ resp' = NoResponse
    /\ wallpapers' = << >>
    /\ existingIDs' = << >>
    /\ toDownload' = << >>
    /\ prodpc' = "off"
    /\ sent' = 0
    /\ queue' = << >>
    /\ closed' = FALSE
    /\ wpc' = [w \in Workers |-> "off"]
    /\ witem' = [w \in Workers |-> 0]
    /\ hist' = << >>
    /\ fatalAt' = "none"
    /\ prev' = [clean |-> /\ mainpc = "done"
                          /\ resp.status = 200
                          /\ wallpapers = listing
                          /\ \A w \in Workers : wpc[w] = "returned"
                          /\ \A i \in DOMAIN hist : Succeeded(hist[i]),
                insfailed |-> { toDownload[i].src :
                                  i \in { j \in DOMAIN hist : hist[j].insfail > 0 } }]
    /\ db' = "nil"
    /\ UNCHANGED <<prog, listing, rows, files>>

Next ==
    \/ CreateFolder
    \/ InitDB
    \/ FetchApi
    \/ Unmarshal
    \/ QueryExisting
    \/ Filter
    \/ StartWorkers
    \/ StartProducer
    \/ Wait
    \/ Send
    \/ Close
    \/ \E w \in Workers : Prepare(w)
    \/ \E w \in Workers : Receive(w)
    \/ \E w \in Workers : RangeEnd(w)
    \/ \E w \in Workers : DownloadFile(w)
    \/ \E w \in Workers : Insert(w)
    \/ NextRun

Spec == Init /\ [][Next]_vars

(***************************************************************************)
(* The dedup filter as a function of its two arguments: any listing and    *)
(* any list of existing identifiers, then one application of the filter.   *)
(***************************************************************************)
ExistingIdValues(p) ==
    { RowId(p, r) : r \in ListingRows(p) }

InitFilter ==
    /\ prog \in Programs
    /\ listing \in Listings(prog)
    /\ run = 1
    /\ mainpc = "filter"
    /\ rows = << >>
    /\ files = << >>
    /\ rows0 = 0
    /\ prev = NoPrev
    /\ resp = [err |-> FALSE, status |-> 200, body |-> "rows"]
    /\ wallpapers = listing
    /\ existingIDs \in SeqsUpTo(ExistingIdValues(prog), MaxId)
    /\ toDownload = << >>
    /\ prodpc = "off"
    /\ sent = 0
    /\ queue = << >>
    /\ closed = FALSE
    /\ wpc = [w \in Workers |-> "off"]
    /\ witem = [w \in Workers |-> 0]
    /\ hist = << >>
    /\ fatalAt = "none"
    /\ db = "open"

SpecFilter == InitFilter /\ [][Filter]_vars

\* the same over the rows whose image URLs may be empty, in listings of up
\* to MaxVariantLen records
MaxVariantLen == 3

InitVariants ==
    /\ prog \in Programs
    /\ listing \in SeqsUpTo(VariantRows(prog), MaxVariantLen)
    /\ run = 1
    /\ mainpc = "filter"
    /\ rows = << >>
    /\ files = << >>
    /\ rows0 = 0
    /\ prev = NoPrev
    /\ resp = [err |-> FALSE, status |-> 200, body |-> "rows"]
    /\ wallpapers = listing
    /\ existingIDs \in SeqsUpTo({ RowId(prog, r) : r \in VariantRows(prog) }, 1)
    /\ toDownload = << >>
    /\ prodpc = "off"
    /\ sent = 0
    /\ queue = << >>
    /\ closed = FALSE
    /\ wpc = [w \in Workers |-> "off"]
    /\ witem = [w \in Workers |-> 0]
    /\ hist = << >>
    /\ fatalAt = "none"
    /\ db = "open"

SpecVariants == InitVariants /\ [][Filter]_vars

(***************************************************************************)
(* DownloadFile as a function of its arguments and of the answer's          *)
(* Content-Type: a worker holds an entry of any URL and any file name, then *)
(* one call of DownloadFile.                                                *)
(***************************************************************************)
MaxName == 3

NameChars == {"a", " ", "/", "\\", ".", "_"}

FileNames == SeqsUpTo(NameChars, MaxName)

\* the file names the first Azur Lane filter builds, which end in .jpeg
FilterNames ==
    { EntriesOf("azurlane_v0", r, 1)[1].FileName : r \in ListingRows("azurlane_v0") }

Urls ==
    { << >>,
      <<"u", "/", "w">>,
      <<"u", "/", "w", ".", "p", "n", "g">>,
      <<"u", ".", "c", "/", "w">>,
      <<"u", "/", "w", ".", "j", "p", "e", "g">> }

InitDownload ==
    /\ prog \in {"azurlane", "aethergazer_v0"}
    /\ listing = << >>
    /\ run = 1
    /\ mainpc = "wait"
    /\ rows = << >>
    /\ files = << >>
    /\ rows0 = 0
    /\ prev = NoPrev
    /\ resp = [err |-> FALSE, status |-> 200, body |-> "rows"]
    /\ wallpapers = << >>
    /\ existingIDs = << >>
    /\ \E u \in Urls, f \in FileNames \cup FilterNames :
         toDownload = << [src |-> 1, id |-> 1, kind |-> "wallpaper",
                          url |-> u, FileName |-> f] >>
    /\ prodpc = "done"
    /\ sent = 1
    /\ queue = << >>
    /\ closed = TRUE
    /\ wpc = [w \in Workers |-> IF w = 1 THEN "download" ELSE "loop"]
    /\ witem = [w \in Workers |-> IF w = 1 THEN 1 ELSE 0]
    /\ hist = << [NoHist EXCEPT !.taken = 1] >>
    /\ fatalAt = "none"
    /\ db = "open"

SpecDownload ==
    InitDownload /\ [][\E w \in Workers : DownloadFileFrom(w, ContentTypes)]_vars

(***************************************************************************)
(* Properties.                                                             *)
(***************************************************************************)
\* the rows appended during the current run
NewRows == SubSeq(rows, rows0 + 1, Len(rows))

\* C1: by the time main stops waiting on the workers, the queue is empty and
\* every entry the producer sent has been taken by exactly one worker and has
\* ended as a success or as a logged failure (successes + failures = sent),
\* whatever the outcome of each download, insert and statement preparation.
C1_QueueDrainedAtExit ==
    mainpc = "done" =>
        /\ queue = << >>
        /\ \A i \in 1..sent :
             /\ hist[i].taken = 1
             /\ Succeeded(hist[i]) # Failed(hist[i])
        /\ Cardinality({ i \in 1..sent : Succeeded(hist[i]) })
             + Cardinality({ i \in 1..sent : Failed(hist[i]) }) = sent

\* C2: when the previous run downloaded and recorded the whole listing with
\* every download and every insert successful, this run against the same
\* listing issues no download request and inserts no row.
C2_SecondRunIdle ==
    (run > 1 /\ prev.clean) =>
        /\ \A i \in DOMAIN hist : hist[i].gets = 0
        /\ Len(rows) = rows0

\* C3: no entry the dedup filter produces carries an identifier that is among
\* the existing identifiers it was given.
C3_FilterExcludesExisting ==
    \A i \in DOMAIN toDownload :
        /\ ~ IntInArray(existingIDs, toDownload[i].id)
        /\ ~ IntInArray(existingIDs, RowId(prog, wallpapers[toDownload[i].src]))

\* C3 witness: the filter has run on a listing that holds both a row whose
\* identifier exists already and a row it kept.
C3_Witness ==
    /\ mainpc # "filter"
    /\ toDownload # << >>
    /\ \E k \in DOMAIN wallpapers :
         IntInArray(existingIDs, RowId(prog, wallpapers[k]))

\* C4: at the end of a run every entry whose download and file write
\* succeeded and whose insert did not fail has its row: one row was inserted
\* for it, and the rows appended in the run carrying an identifier are as many
\* as the entries of that identifier so downloaded.
C4_OneRowPerDownload ==
    mainpc = "done" =>
        \A i \in DOMAIN hist :
            (hist[i].dl = "ok" /\ hist[i].insfail = 0) =>
                /\ hist[i].ins = 1
                /\ Cardinality({ k \in DOMAIN NewRows :
                                   NewRows[k].id_gallery = toDownload[i].id })
                   = Cardinality({ j \in DOMAIN hist :
                                     /\ toDownload[j].id = toDownload[i].id
                                     /\ hist[j].dl = "ok"
                                     /\ hist[j].insfail = 0 })

\* C5: a row is appended only by a worker that holds an entry whose download
\* and file write have just succeeded, and it is that entry's row; an entry
\* whose GET errored or returned a non-success status has no row.
C5_RowOnlyAfterDownload ==
    /\ [] (\A i \in DOMAIN hist :
             hist[i].dl \in Outcomes \ {"ok"} => hist[i].ins = 0)
    /\ [][ (rows' # rows /\ run' = run) =>
             \E w \in Workers :
                 /\ wpc[w] = "insert"
                 /\ hist[witem[w]].dl = "ok"
                 /\ hist[witem[w]].gets = 1
                 /\ WrittenPath(witem[w]) \in DOMAIN files
                 /\ rows' = Append(rows, InsertRow(prog, toDownload[witem[w]]))
         ]_vars

\* C5 witness: a run has ended in which one entry got a 404 and no row and
\* another entry was downloaded and recorded.
C5_Witness ==
    /\ mainpc = "done"
    /\ \E i, j \in DOMAIN hist :
         /\ hist[i].dl = "non200" /\ hist[i].ins = 0
         /\ hist[j].dl = "ok" /\ hist[j].ins = 1
         /\ Len(rows) = rows0 + 1

\* C6: a failed download or file write is never fatal: the worker goes on to
\* the next queue item and the process keeps running.
C6_FailedDownloadNotFatal ==
    [][ \A w \in Workers :
          (wpc[w] \in {"download", "create", "copy"} /\ run' = run
             /\ hist[witem[w]].dl = "none"
             /\ hist'[witem[w]].dl \in Outcomes \ {"ok"})
          => (wpc'[w] = "loop" /\ mainpc' = mainpc)
      ]_vars

\* C7: when the insert for an entry fails after its file was written, the
\* file stays, no row is added, the worker goes on to the next queue item,
\* and the next run's filter emits the entry of that listing row again.
C7_InsertFailureKeepsFileAndRetries ==
    /\ [][ \A w \in Workers :
             (wpc[w] = "insert" /\ hist' # hist
                /\ hist'[witem[w]].insfail > hist[witem[w]].insfail)
             => /\ rows' = rows
                /\ files' = files
                /\ WrittenPath(witem[w]) \in DOMAIN files
                /\ wpc'[w] = "loop"
                /\ mainpc' = mainpc
         ]_vars
    /\ [] ((run > 1 /\ fatalAt = "none" /\ wallpapers = listing
              /\ mainpc \notin {"fetch", "decode", "query", "filter", "folder", "db"})
            => \A k \in prev.insfailed :
                   \E i \in DOMAIN toDownload : toDownload[i].src = k)

\* C8: when folder creation, the database open or schema creation, the
\* listing fetch or the listing decode fails, the run stops there: no worker
\* and no producer is started, nothing is enqueued, no download request is
\* issued and no row is inserted.
C8_FatalSetupStopsRun ==
    fatalAt \in {"folder", "db", "fetch", "decode"} =>
        /\ mainpc = "aborted"
        /\ \A w \in Workers : wpc[w] = "off"
        /\ prodpc = "off"
        /\ sent = 0
        /\ queue = << >>
        /\ toDownload = << >>
        /\ hist = << >>
        /\ Len(rows) = rows0

\* C8 witness: the second run, on a storage that holds rows, stopped at the
\* decode of the listing.
C8_Witness ==
    /\ fatalAt = "decode"
    /\ mainpc = "aborted"
    /\ run = 2
    /\ rows # << >>

\* C9: when the listing request fails on the network, or the endpoint answers
\* with a non-2xx status, or the body is not valid JSON, the lister returns an
\* error and the run aborts without using any listing.
C9_ListerRejectsBadAnswer ==
    (resp # NoResponse /\ mainpc # "decode"
       /\ (resp.err \/ resp.status \notin 200..299 \/ resp.body = "garbage"))
    => (mainpc = "aborted" /\ fatalAt \in {"fetch", "decode"})

\* C10: main passes its wait only after every worker has observed the queue
\* closed and empty with no entry in hand; no worker has stopped before
\* seeing the closure.
C10_WaitAfterAllSawClose ==
    mainpc = "done" =>
        \A w \in Workers :
            /\ wpc[w] = "returned"
            /\ witem[w] = 0
            /\ closed
            /\ queue = << >>

\* the identifiers of a listing are pairwise distinct
DistinctIds(p, l) ==
    \A i, j \in DOMAIN l : i # j => RowId(p, l[i]) # RowId(p, l[j])

\* main has read the existing identifiers and filtered the listing
PastFilter == mainpc \in {"workers", "producer", "wait", "done"}

\* C11: in a run after the first, once the startup query has answered, every
\* row the earlier runs inserted is among the identifiers read back, under
\* the identifier the filter derives from the listing row it was made from.
C11_InsertedRowsReadBack ==
    (run > 1 /\ fatalAt = "none" /\ PastFilter) =>
        \A k \in 1..rows0 :
            \E j \in DOMAIN listing :
                /\ RowId(prog, listing[j]) = rows[k].id_gallery
                /\ IntInArray(existingIDs, RowId(prog, listing[j]))

\* C12: over a listing of pairwise distinct identifiers, no two rows of the
\* table carry the same gallery identifier, game and type, whatever the
\* number of runs.
C12_NoDuplicateRows ==
    DistinctIds(prog, listing) =>
        \A k, l \in DOMAIN rows :
            k # l => <<rows[k].id_gallery, rows[k].game, rows[k].type>>
                     # <<rows[l].id_gallery, rows[l].game, rows[l].type>>

\* C13: over a listing of pairwise distinct identifiers, no two entries of a
\* run have their file created at the same destination path.
C13_DistinctDestinations ==
    DistinctIds(prog, listing) =>
        \A i, j \in DOMAIN hist :
            (i # j /\ hist[i].name # << >> /\ hist[j].name # << >>)
              => WrittenPath(i) # WrittenPath(j)

\* C14: for a record whose identifier is not in storage and that carries
\* several image variants, the filter emits as many entries as the record has
\* non-empty variant URLs, none with an empty URL, each with the record's
\* identifier, and no two with the same kind (destination folder).
C14_OneEntryPerVariant ==
    mainpc # "filter" =>
        \A k \in DOMAIN wallpapers :
            LET row == wallpapers[k]
                urls == VariantUrls(prog, row)
                es == { i \in DOMAIN toDownload : toDownload[i].src = k }
            IN  (Len(urls) > 1 /\ ~ IntInArray(existingIDs, RowId(prog, row))) =>
                    /\ Cardinality(es)
                       = Cardinality({ v \in DOMAIN urls : urls[v] # << >> })
                    /\ \A i \in es :
                           /\ toDownload[i].url # << >>
                           /\ toDownload[i].id = RowId(prog, row)
                    /\ \A i, j \in es :
                           i # j => toDownload[i].kind # toDownload[j].kind

\* C15: the extension of a written file is the one present in the file name
\* or in the URL when there is one (as the name cleaning leaves it);
\* otherwise the one mapped from the answer's Content-Type (.jpg, .png, .gif,
\* .webp); otherwise none.
C15_ExtensionChoice ==
    \A i \in DOMAIN hist :
        hist[i].name # << >> =>
            LET al == toDownload[i]
                f == DownloadFile_fileName(al.url, al.FileName)
                present == {Ext(f), Ext(al.url)} \ { << >> }
                e == Ext(hist[i].name)
            IN  IF present # {}
                  THEN e \in present \cup { CleanFileName(x) : x \in present }
                  ELSE \E contentType \in ContentTypes :
                           e = ContentTypeExt(contentType)

\* C16: cleaning a file name (space to _, / and \ to -) gives a name without
\* / and \ that cleaning leaves as it is, also when a filter had replaced the
\* slashes before, and the file DownloadFile writes is named by the cleaned
\* name, which is the name handed over when that one was clean already.
C16_SanitizeIdempotent ==
    \A i \in DOMAIN toDownload :
        LET f == DownloadFile_fileName(toDownload[i].url, toDownload[i].FileName)
            c == CleanFileName(f)
        IN  /\ CleanFileName(c) = c
            /\ CleanFileName(CleanSlashOnly(f)) = c
            /\ \A k \in DOMAIN c : c[k] \notin {"/", "\\"}
            /\ hist[i].name # << >> =>
                   /\ SubSeq(hist[i].name, 1, Len(c)) = c
                   /\ (\A k \in DOMAIN f : f[k] \notin {" ", "/", "\\"})
                        => SubSeq(hist[i].name, 1, Len(f)) = f

\* C16 witness: a file was written for a name made of a space, a slash and a
\* backslash, and its name starts with _--.
C16_Witness ==
    \E i \in DOMAIN hist :
        /\ toDownload[i].FileName = <<" ", "/", "\\">>
        /\ hist[i].dl = "ok"
        /\ SubSeq(hist[i].name, 1, 3) = <<"_", "-", "-">>

\* C20: the row recorded for an entry carries, as file_name, the name of the
\* file DownloadFile wrote for that entry.
C20_StoredNameIsWrittenName ==
    \A i \in DOMAIN hist :
        (hist[i].ins = 1 /\ Table(prog) = "yostar_gallery") =>
            \E k \in DOMAIN NewRows :
                /\ NewRows[k].id_gallery = toDownload[i].id
                /\ NewRows[k].url = toDownload[i].url
                /\ NewRows[k].file_name = hist[i].name

\* the pool of the current run has been started
PoolStarted == prodpc # "off" \/ \E w \in Workers : wpc[w] # "off"

\* how often an entry is in the channel's buffer
InQueue(i) == Cardinality({ k \in DOMAIN queue : queue[k] = i })

\* C17: a run whose pool was started never stops short of the wait: while it
\* has not ended some step of it can be taken, and it ends with main past the
\* wait and the producer through its list and its close.
C17_RunPassesWait ==
    /\ (PoolStarted /\ mainpc \notin Terminal) => ENABLED Next
    /\ (PoolStarted /\ mainpc \in Terminal) =>
           (mainpc = "done" /\ prodpc = "done")

\* C18: the producer sends the entries of the list in order, one position
\* after the other, and only while the channel is open; it closes the channel
\* once, after the last entry was sent, and the channel stays closed; the
\* buffer holds sent entries in the order sent, and a worker holds a sent
\* entry.
C18_ProducerOrderAndClose ==
    /\ [] (closed => (sent = Len(toDownload) /\ prodpc = "done"))
    /\ [] (\A w \in Workers : witem[w] # 0 => witem[w] \in 1..sent)
    /\ [] (\A k \in DOMAIN queue :
             /\ queue[k] \in 1..sent
             /\ k < Len(queue) => queue[k] < queue[k + 1])
    /\ [][ run' = run =>
             /\ sent' # sent =>
                  (~ closed /\ sent' = sent + 1 /\ queue' = Append(queue, sent'))
             /\ closed => (closed' /\ sent' = sent /\ prodpc' = "done")
         ]_vars

\* C18 witness: the channel is closed after two entries were sent, the first
\* has been taken and a worker holds the second.
C18_Witness ==
    /\ closed
    /\ sent = 2
    /\ hist[1].taken = 1
    /\ \E w \in Workers : witem[w] = 2

\* C19: the buffer never holds more than Q entries, no send is done while it
\* holds Q, and every entry sent is either in the buffer once or was taken
\* once.
C19_QueueBounded ==
    /\ [] (Len(queue) <= Q)
    /\ [] (\A i \in 1..sent : InQueue(i) + hist[i].taken = 1)
    /\ [][ (Len(queue) = Q /\ run' = run) => sent' = sent ]_vars

\* C19 witness: the buffer is full and the producer, with an entry left to
\* send, waits for a worker to take one.
C19_Witness ==
    /\ Len(queue) = Q
    /\ prodpc = "send"
    /\ sent < Len(toDownload)
    /\ \E w \in Workers : wpc[w] = "download"

\* C21: when the file name handed to DownloadFile ends in an extension, the
\* file is written under the cleaned name as it is: nothing is appended.
C21_ExtensionOnce ==
    \A i \in DOMAIN hist :
        LET f == DownloadFile_fileName(toDownload[i].url, toDownload[i].FileName)
        IN  (hist[i].name # << >> /\ Ext(f) # << >>) =>
                hist[i].name = CleanFileName(f)

\* C22: a call of DownloadFile or downloadImage that returns an error has
\* left the destination as it was: the call has neither created a file nor
\* truncated one (os.Create did not succeed in it).
C22_FailedDownloadLeavesFiles ==
    \A i \in DOMAIN hist :
        hist[i].dl \in Outcomes \ {"ok"} => hist[i].name = << >>

\* C26: in a program that takes its handle from GetSqliteDb, the handle is
\* open when main runs its first query and when a worker prepares its
\* statement.
C26_HandleOpened ==
    UsesGetSqliteDb(prog) =>
        ((mainpc = "query" \/ \E w \in Workers : wpc[w] = "prepare")
           => db = "open")

\* C27: the handle is closed only when every worker has returned, and a
\* worker's Prepare or INSERT always runs on an open handle.
C27_NoUseAfterClose ==
    /\ [] (db = "closed" =>
             \A w \in Workers : wpc[w] \in {"returned", "returned_early"})
    /\ [][ \A w \in Workers :
             (wpc[w] \in {"prepare", "insert"} /\ wpc'[w] # wpc[w])
               => db = "open"
         ]_vars

\* C27 witness: main has returned and closed the handle after a run in which
\* a worker prepared its statement and inserted a row.
C27_Witness ==
    /\ db = "closed"
    /\ mainpc = "done"
    /\ HasPrepare(prog)
    /\ \E i \in DOMAIN hist : hist[i].ins = 1

\* C23: once a worker runs, main is past its identifier query and its
\* filter, and from the start of the pool to the end of the run neither the
\* identifiers read nor the filtered list change, whatever is inserted.
C23_ScanBeforePool ==
    /\ [] ((\E w \in Workers : wpc[w] # "off")
             => mainpc \in {"producer", "wait", "done", "crashed"})
    /\ [][ (PoolStarted /\ run' = run)
             => (existingIDs' = existingIDs /\ toDownload' = toDownload)
         ]_vars

\* C23 witness: a row was inserted for an entry while another entry of the
\* same identifier is still waiting in the run's filtered list.
C23_Witness ==
    \E i, j \in DOMAIN hist :
        /\ i # j
        /\ hist[i].ins = 1
        /\ toDownload[j].id = toDownload[i].id
        /\ hist[j].taken = 0

\* the filter's output runs through the listing in its order and holds
\* entries of records with a new identifier only
OrderedAndNew ==
    /\ \A i \in DOMAIN toDownload :
           /\ toDownload[i].src \in DOMAIN wallpapers
           /\ ~ IntInArray(existingIDs,
                           RowId(prog, wallpapers[toDownload[i].src]))
    /\ \A i, j \in DOMAIN toDownload :
           i < j => toDownload[i].src <= toDownload[j].src

\* C24 as stated: the filter's output holds, in listing order, an entry for
\* every listed record whose identifier is not among the existing ones, and
\* nothing else.
C24_EveryNewRecordKept ==
    mainpc # "filter" =>
        /\ OrderedAndNew
        /\ \A k \in DOMAIN wallpapers :
               ~ IntInArray(existingIDs, RowId(prog, wallpapers[k]))
                 => \E i \in DOMAIN toDownload : toDownload[i].src = k

\* C24 amended: the filter's output holds, in listing order, entries of
\* listed records whose identifier is not among the existing ones, and
\* nothing else.  prepareImagesForDownload (the two Aether Gazer programs
\* built on it) has an entry for such a record exactly when one of its image
\* URLs is not empty; every other filter has an entry for every such record,
\* whatever its image URLs hold.
C24_OrderedSubsequence ==
    mainpc # "filter" =>
        /\ OrderedAndNew
        /\ \A k \in DOMAIN wallpapers :
               LET urls == VariantUrls(prog, wallpapers[k])
                   kept == \E i \in DOMAIN toDownload : toDownload[i].src = k
               IN  ~ IntInArray(existingIDs, RowId(prog, wallpapers[k])) =>
                       IF IsAetherGazer(prog)
                         THEN kept <=> \E v \in DOMAIN urls : urls[v] # << >>
                         ELSE kept

\* C24 witness: prepareImagesForDownload has filtered a listing of three
\* records, the first with an identifier that exists in storage, the second
\* new with every image URL empty, the third new with two image URLs; its
\* output is the two entries of the third.
C24_Witness ==
    /\ mainpc # "filter"
    /\ IsAetherGazer(prog)
    /\ Len(wallpapers) = 3
    /\ IntInArray(existingIDs, RowId(prog, wallpapers[1]))
    /\ ~ IntInArray(existingIDs, RowId(prog, wallpapers[2]))
    /\ \A v \in DOMAIN VariantUrls(prog, wallpapers[2]) :
           VariantUrls(prog, wallpapers[2])[v] = << >>
    /\ Len(toDownload) = 2
    /\ toDownload[1].src = 3 /\ toDownload[1].kind = "content"
    /\ toDownload[2].src = 3 /\ toDownload[2].kind = "mobile"

\* an entry's handling by its worker has ended
Ended(i) ==
    \/ hist[i].dl \in Outcomes \ {"ok"}
    \/ hist[i].dl = "ok" /\ (HasRecorder(prog) => hist[i].ins + hist[i].insfail >= 1)

\* the entries taken from the queue and being downloaded or recorded
InFlight == { i \in DOMAIN hist : hist[i].taken >= 1 /\ ~ Ended(i) }

\* C25: in a run every entry is taken by a worker at most once and its URL is
\* requested at most once; an entry whose download failed is not requested
\* again and is never in the queue again.
C25_NoRetry ==
    /\ [] (\A i \in DOMAIN hist : hist[i].gets <= 1 /\ hist[i].taken <= 1)
    /\ [][ run' = run =>
             \A i \in DOMAIN hist :
                 hist[i].dl \in Outcomes \ {"ok"} =>
                     /\ hist'[i].gets = hist[i].gets
                     /\ \A k \in DOMAIN queue' : queue'[k] # i
         ]_vars

\* C25 witness: a run has ended in which an entry got a non-200 answer, was
\* requested once, and the entry after it was downloaded.
C25_Witness ==
    /\ mainpc = "done"
    /\ \E i, j \in DOMAIN hist :
         /\ i < j
         /\ hist[i].dl = "non200" /\ hist[i].gets = 1 /\ hist[i].taken = 1
         /\ hist[j].dl = "ok"

\* C28: at most W entries are being downloaded or recorded at any moment,
\* each of them held by exactly one worker, and workers are started by main's
\* start step only.
C28_AtMostWInFlight ==
    /\ [] (Cardinality(InFlight) <= W)
    /\ [] (\A i \in InFlight :
             Cardinality({ w \in DOMAIN witem : witem[w] = i }) = 1)
    /\ [] (Cardinality({ w \in DOMAIN wpc : wpc[w] # "off" }) <= W)
    /\ [][ (\E w \in DOMAIN wpc : wpc[w] = "off" /\ wpc'[w] # "off")
             => mainpc = "workers" ]_vars

\* C28 witness: W entries are in flight while a further entry waits in the
\* queue.
C28_Witness ==
    /\ Cardinality(InFlight) = W
    /\ queue # << >>

\* C29: a step never removes or changes a row: the table after the step
\* starts with the table before it, in a run and from one run to the next.
C29_RowsAppendOnly ==
    [][ /\ Len(rows') >= Len(rows)
        /\ SubSeq(rows', 1, Len(rows)) = rows ]_vars

\* C29 witness: in a second run a row was added to the rows of the first.
C29_Witness ==
    /\ run = 2
    /\ rows0 >= 1
    /\ Len(rows) > rows0
    /\ SubSeq(rows, 1, rows0) # << >>

=============================================================================
